---- MODULE Spec2Model ----
(***************************************************************************)
(* Escriba: the streaming transcription gateway.                           *)
(*                                                                         *)
(* One request is followed from its arrival to the end of its chunk        *)
(* sequence.  The repository holds two implementations of the pipeline and *)
(* both are modelled:                                                      *)
(*   entry = "gateway"  app/api/endpoints.py generate_stream, which calls  *)
(*                      services/gemini.py and services/groq.py;           *)
(*   entry = "service"  services/transcription_service.py, the provider    *)
(*                      chosen by get_transcription_service and its        *)
(*                      transcribe generator driven to its end.            *)
(* Text is a TLA+ string, joined with \o.  Identifiers that are searched   *)
(* for substrings, and base64 payloads that are decoded, are tuples of     *)
(* one-character strings.                                                  *)
(***************************************************************************)
EXTENDS Integers, Sequences, FiniteSets, TLC

VARIABLES
    entry,          \* which implementation handles the request
    body,           \* the request as submitted
    request,        \* GenerationRequest: audio_base64, model_name, template_name, template_vars
    groq_api_key,   \* settings.groq_api_key, read at start-up
    pc,             \* position of the request
    detail,         \* detail of the HTTPException raised before the stream starts
    template_vars,  \* the mapping handed to the provider
    initial_prompt, \* the budgeted prompt
    provider,       \* the provider serving the request
    rendered_prompt,\* the rendered template
    audio,          \* result of decoding and sniffing the payload
    calls,          \* outbound provider calls issued, in order
    response,       \* the answer to the Groq call
    upstream,       \* what the model's streaming response will produce
    upRead,         \* number of upstream fragments read so far
    gen,            \* state of the provider's generator
    out,            \* chunks delivered to the caller, in order
    disconnected,   \* what req.is_disconnected() answers
    caught,         \* the exception the controller's handlers received
    propagated,     \* an exception left the chunk sequence
    decodes,        \* number of base64 decodes performed
    renders,        \* number of template renders performed
    reqs,           \* the requests in flight on the event loop, each with its locals
    heap,           \* the mapping objects the requests hold references to
    loop            \* the request whose synchronous call holds the event loop, or 0

vars == <<entry, body, request, groq_api_key, pc, detail, template_vars, initial_prompt,
          provider, rendered_prompt, audio, calls, response, upstream, upRead, gen,
          out, disconnected, caught, propagated, decodes, renders, reqs, heap, loop>>

\* the state of the requests that share the event loop
concurrent == <<reqs, heap, loop>>

----------------------------------------------------------------------------
(* Bounds *)

\* longest upstream streaming response, in fragments
MaxFragments == 3

----------------------------------------------------------------------------
(* Python values *)

\* Python's None where a string is expected
None == "<None>"

\* Python truthiness of an optional string
Truthy(v) == v # None /\ v # ""

\* template_vars = None
NoneVars == [none |-> TRUE]

IsNone(m) == DOMAIN m = {"none"}

EmptyVars == [k \in {} |-> ""]

\* truthiness of an optional dict: None and {} are both falsy
TruthyVars(m) == ~IsNone(m) /\ DOMAIN m # {}

\* dict.get(k)
Get(m, k) == IF k \in DOMAIN m THEN m[k] ELSE None

\* " ".join(parts)
RECURSIVE Join(_)
Join(parts) ==
    IF Len(parts) = 0 THEN ""
    ELSE IF Len(parts) = 1 THEN parts[1]
    ELSE parts[1] \o " " \o Join(Tail(parts))

\* str.lower() on a tuple of characters
UpperCase == <<"A", "B", "C", "D", "E", "F", "G", "H", "I", "J", "K", "L", "M",
               "N", "O", "P", "Q", "R", "S", "T", "U", "V", "W", "X", "Y", "Z">>

LowerCase == <<"a", "b", "c", "d", "e", "f", "g", "h", "i", "j", "k", "l", "m",
               "n", "o", "p", "q", "r", "s", "t", "u", "v", "w", "x", "y", "z">>

LowerChar(c) ==
    IF \E i \in DOMAIN UpperCase : UpperCase[i] = c
    THEN LowerCase[CHOOSE i \in DOMAIN UpperCase : UpperCase[i] = c]
    ELSE c

Lower(s) == [i \in DOMAIN s |-> LowerChar(s[i])]

\* sub in s
Contains(s, sub) ==
    \E i \in 0..(Len(s) - Len(sub)) : SubSeq(s, i + 1, i + Len(sub)) = sub

Whisper == <<"w", "h", "i", "s", "p", "e", "r">>
Groq == <<"g", "r", "o", "q">>
Gemini == <<"g", "e", "m", "i", "n", "i">>
Google == <<"g", "o", "o", "g", "l", "e">>

----------------------------------------------------------------------------
(* Configuration: app/core/config.py *)

\* a table in which a display name is itself a code
LANGUAGE_DICT_chained ==
    [c \in {"en", "es", "pt", "fr", "de"} |->
        CASE c = "en" -> "English"
          [] c = "es" -> "Español"
          [] c = "pt" -> "fr"
          [] c = "fr" -> "Français"
          [] c = "de" -> "Deutsch"]

LANGUAGE_DICT ==
    [c \in {"en", "es", "pt", "fr", "de"} |->
        CASE c = "en" -> "English"
          [] c = "es" -> "Español"
          [] c = "pt" -> "Português"
          [] c = "fr" -> "Français"
          [] c = "de" -> "Deutsch"]

default_language == ""

default_context == "General"

default_template_name == "transcription.jinja2"

----------------------------------------------------------------------------
(* base64.b64decode and filetype.guess *)

B64Alphabet ==
    <<"A", "B", "C", "D", "E", "F", "G", "H", "I", "J", "K", "L", "M", "N", "O", "P",
      "Q", "R", "S", "T", "U", "V", "W", "X", "Y", "Z", "a", "b", "c", "d", "e", "f",
      "g", "h", "i", "j", "k", "l", "m", "n", "o", "p", "q", "r", "s", "t", "u", "v",
      "w", "x", "y", "z", "0", "1", "2", "3", "4", "5", "6", "7", "8", "9", "+", "/">>

IsB64Char(c) == \E i \in DOMAIN B64Alphabet : B64Alphabet[i] = c

\* the 6-bit value of a base64 character
B64Value(c) == (CHOOSE i \in DOMAIN B64Alphabet : B64Alphabet[i] = c) - 1

\* the data characters of a payload: characters outside the alphabet are discarded
B64Data(s) == SelectSeq(s, IsB64Char)

B64Pads(s) == Len(SelectSeq(s, LAMBDA c : c = "="))

\* binascii.Error: a trailing group that the padding does not complete
B64Fails(s) ==
    LET r == Len(B64Data(s)) % 4 IN
        \/ r = 1
        \/ r = 2 /\ B64Pads(s) < 2
        \/ r = 3 /\ B64Pads(s) < 1

\* the bytes of a run of data characters, four characters to three bytes
RECURSIVE B64Bytes(_)
B64Bytes(d) ==
    IF Len(d) < 2 THEN <<>>
    ELSE IF Len(d) = 2
        THEN LET n == B64Value(d[1]) * 64 + B64Value(d[2]) IN <<n \div 16>>
    ELSE IF Len(d) = 3
        THEN LET n == (B64Value(d[1]) * 64 + B64Value(d[2])) * 64 + B64Value(d[3]) IN
             <<n \div 1024, (n \div 4) % 256>>
    ELSE LET n == ((B64Value(d[1]) * 64 + B64Value(d[2])) * 64 + B64Value(d[3])) * 64
                    + B64Value(d[4]) IN
         <<n \div 65536, (n \div 256) % 256, n % 256>> \o B64Bytes(SubSeq(d, 5, Len(d)))

b64decode(s) == B64Bytes(B64Data(s))

HasPrefixAt(bytes, at, sig) ==
    Len(bytes) >= at + Len(sig) - 1 /\ SubSeq(bytes, at, at + Len(sig) - 1) = sig

\* filetype.guess: the container whose magic number the bytes start with, or None
guess(bytes) ==
    IF HasPrefixAt(bytes, 1, <<82, 73, 70, 70>>) /\ HasPrefixAt(bytes, 9, <<87, 65, 86, 69>>)
        THEN [mime |-> "audio/x-wav", extension |-> "wav"]
    ELSE IF HasPrefixAt(bytes, 1, <<73, 68, 51>>)
        THEN [mime |-> "audio/mpeg", extension |-> "mp3"]
    ELSE IF HasPrefixAt(bytes, 1, <<137, 80, 78, 71>>)
        THEN [mime |-> "image/png", extension |-> "png"]
    ELSE [mime |-> None, extension |-> None]

----------------------------------------------------------------------------
(* Exceptions and results *)

Exc(cls, msg) == [raised |-> TRUE, cls |-> cls, msg |-> msg]

NoExc == [raised |-> FALSE, cls |-> None, msg |-> None]

\* str(e) of the binascii.Error raised by b64decode
B64ErrorText(s) ==
    IF Len(B64Data(s)) % 4 = 1
    THEN "Invalid base64-encoded string: number of data characters ("
         \o ToString(Len(B64Data(s))) \o ") cannot be 1 more than a multiple of 4"
    ELSE "Incorrect padding"

NotDecoded == [status |-> "none", bytes |-> <<>>, mime |-> None, extension |-> None,
               error |-> NoExc]

Decoded(bytes, kind) == [status |-> "ok", bytes |-> bytes, mime |-> kind.mime,
                         extension |-> kind.extension, error |-> NoExc]

DecodeFailed(exc) == [status |-> "error", bytes |-> <<>>, mime |-> None,
                      extension |-> None, error |-> exc]

\* the payloads of the requests
WavAudio == <<"U", "k", "l", "G", "R", "i", "Q", "A", "A", "A", "B", "X", "Q", "V", "Z", "F">>
PngAudio == <<"i", "V", "B", "O", "R", "w", "0", "K", "G", "g", "o", "=">>
BadPaddingAudio == <<"U", "k", "l", "G", "R", "g">>
GarbageAudio == <<"A", "A", "A", "A">>
EmptyAudio == <<>>

AudioInputs == {EmptyAudio, BadPaddingAudio, GarbageAudio, WavAudio, PngAudio}

\* base64.b64decode and filetype.guess applied to a payload
SniffRecord(s, bytes) ==
    [payload |-> s, fails |-> B64Fails(s), error |-> B64ErrorText(s), bytes |-> bytes,
     kind |-> guess(bytes)]

\* every payload decoded and sniffed, computed once
Sniffed == {SniffRecord(s, b64decode(s)) : s \in AudioInputs}

Sniff(audio_base64) == CHOOSE r \in Sniffed : r.payload = audio_base64

\* the body of the try block shared by _decode_audio and transcribe_audio_groq,
\* on a decoded and sniffed payload
TryDecodeSniffed(r) ==
    IF r.fails
    THEN DecodeFailed(Exc("binascii.Error", r.error))
    ELSE IF r.kind.mime = None
         THEN DecodeFailed(Exc("ValueError", "Invalid audio file format."))
         ELSE Decoded(r.bytes, r.kind)

TryDecode(audio_base64) == TryDecodeSniffed(Sniff(audio_base64))

\* TranscriptionService._decode_audio: `except Exception` also receives the
\* ValueError raised inside the try block
decode_audio(audio_base64) ==
    LET tried == TryDecode(audio_base64) IN
        IF tried.status = "error"
        THEN DecodeFailed(Exc("ValueError", "Invalid Base64-encoded audio data."))
        ELSE tried

\* the decode of transcribe_audio_groq, a copy of _decode_audio
groq_decode(audio_base64) ==
    LET tried == TryDecode(audio_base64) IN
        IF tried.status = "error"
        THEN DecodeFailed(Exc("ValueError", "Invalid Base64-encoded audio data."))
        ELSE tried

\* the audio part of GeminiService.stream_response: the result, and the chunk a
\* failure yields
gemini_decode_sniffed(r) ==
    IF r.fails
    THEN DecodeFailed(Exc("binascii.Error", r.error))
    ELSE IF r.kind.mime = None
         THEN DecodeFailed(Exc("", "Could not detect MIME type from audio data"))
         ELSE Decoded(r.bytes, r.kind)

gemini_decode(audio_base64) == gemini_decode_sniffed(Sniff(audio_base64))

gemini_decode_chunk(result) ==
    IF result.error.cls = ""
    THEN "Error: " \o result.error.msg
    ELSE "Error: " \o "Error processing audio data: " \o result.error.msg

----------------------------------------------------------------------------
(* Language normalisation, prompt budgeting, template rendering *)

\* the language substitution of stream_response and of
\* GeminiTranscriptionService.transcribe
normalize_language(tv) ==
    IF "language" \in DOMAIN tv /\ tv["language"] \in DOMAIN LANGUAGE_DICT
    THEN [tv EXCEPT !["language"] = LANGUAGE_DICT[tv["language"]]]
    ELSE tv

KnownTemplates == {"transcription.jinja2"}

\* PromptTemplateService.render_template: the text is a function of the template
\* and of the variables it is rendered against
render_template(template_name, context) ==
    IF template_name \notin KnownTemplates
    THEN [exc |-> Exc("TemplateNotFound", template_name), text |-> None]
    ELSE [exc |-> NoExc,
          text |-> template_name
                   \o "|language=" \o Get(context, "language")
                   \o "|context=" \o Get(context, "context")
                   \o "|previous_context=" \o Get(context, "previous_context")]

ContextParts(tv, context_label, previous_label) ==
    (IF Truthy(Get(tv, "context")) THEN <<context_label \o tv["context"]>> ELSE <<>>)
    \o (IF Truthy(Get(tv, "previous_context"))
        THEN <<previous_label \o tv["previous_context"]>> ELSE <<>>)

\* an initial prompt that labels its parts
initial_prompt_for_groq_labelled(tv) ==
    LET prompt_parts == ContextParts(tv, "Context: ", "Previous context: ") IN
        IF prompt_parts # <<>> THEN Join(prompt_parts) ELSE None

\* generate_stream.generate: the initial prompt built for Whisper
initial_prompt_for_groq(tv) ==
    LET prompt_parts == ContextParts(tv, "", "") IN
        IF prompt_parts # <<>> THEN Join(prompt_parts) ELSE None

\* GroqTranscriptionService.transcribe: the initial prompt
service_initial_prompt(tv) ==
    IF TruthyVars(tv)
    THEN LET prompt_parts == ContextParts(tv, "Context: ", "Previous context: ") IN
             IF prompt_parts # <<>> THEN Join(prompt_parts) ELSE None
    ELSE None

----------------------------------------------------------------------------
(* Provider selection *)

\* generate_stream: "whisper" in request.model_name.lower()
is_whisper(model_name) == Contains(Lower(model_name), Whisper)

\* get_transcription_service: the provider an identifier resolves to
get_transcription_service(provider_name) ==
    IF Contains(Lower(provider_name), Gemini) \/ Contains(Lower(provider_name), Google)
        THEN "gemini"
    ELSE IF Contains(Lower(provider_name), Whisper) \/ Contains(Lower(provider_name), Groq)
        THEN "groq"
    ELSE "gemini"

----------------------------------------------------------------------------
(* Inputs *)

WhisperLargeV3 == <<"w", "h", "i", "s", "p", "e", "r", "-", "l", "a", "r", "g", "e", "-", "v", "3">>
WhisperUpper == <<"W", "h", "i", "s", "p", "e", "r", "-", "1">>
GroqX == <<"g", "r", "o", "q", "-", "x">>
GeminiFlash == <<"g", "e", "m", "i", "n", "i", "-", "2", ".", "5", "-", "f", "l", "a", "s", "h">>
GoogleX == <<"G", "o", "o", "g", "l", "e", "-", "x">>
UnknownModel == <<"u", "n", "k", "n", "o", "w", "n", "-", "m", "o", "d", "e", "l">>

ModelNames == {WhisperLargeV3, WhisperUpper, GroqX, GeminiFlash, GoogleX, UnknownModel}

TemplateNames == {None, default_template_name, "missing.jinja2"}

VarValues ==
    [language |-> {"pt", "Português"},
     context |-> {"", "Medical"},
     previous_context |-> {"", "Cardiology"}]

\* every mapping over a subset of the three keys the pipeline reads
VarMappings ==
    UNION {[keys -> UNION {VarValues[k] : k \in keys}] : keys \in SUBSET DOMAIN VarValues}

VarInputs ==
    {NoneVars} \cup {m \in VarMappings : \A k \in DOMAIN m : m[k] \in VarValues[k]}

\* responses of the Groq endpoint, and the failures of the call
GroqOutcomes ==
    {[kind |-> "response", status_code |-> 200, text |-> "transcribed text"],
     [kind |-> "response", status_code |-> 200, text |-> ""],
     [kind |-> "response", status_code |-> 500, text |-> "server error"],
     [kind |-> "response", status_code |-> 401, text |-> "invalid api key"],
     [kind |-> "RequestError", status_code |-> 0, text |-> "connect timeout"],
     [kind |-> "Exception", status_code |-> 0, text |-> "boom"]}

NoResponse == [kind |-> None, status_code |-> 0, text |-> None]

\* the text the model emits at position i of its streaming response
FragmentText(i) == "fragment" \o ToString(i)

\* how the upstream iterator ends: exhausted, or raising
Endings ==
    {NoExc, Exc("ConnectionError", "connection reset by peer"),
     Exc("APIError", "503 UNAVAILABLE")}

Upstreams ==
    [frags : UNION {{f \in [1..n -> {""} \cup {FragmentText(i) : i \in 1..n}] :
                        \A i \in 1..n : f[i] \in {"", FragmentText(i)}} :
                    n \in 0..MaxFragments},
     ending : Endings]

NoUpstream == [frags |-> <<>>, ending |-> NoExc]

----------------------------------------------------------------------------
(* The state after construction *)

Init ==
    /\ entry \in {"gateway", "service"}
    /\ body \in [audio_base64 : AudioInputs, model_name : ModelNames,
                 template_name : TemplateNames, template_vars : VarInputs]
    /\ request = body
    /\ groq_api_key \in {"", "gsk_key"}
    /\ pc = "request"
    /\ detail = None
    /\ template_vars = NoneVars
    /\ initial_prompt = None
    /\ provider = None
    /\ rendered_prompt = None
    /\ audio = NotDecoded
    /\ calls = <<>>
    /\ response = NoResponse
    /\ upstream = NoUpstream
    /\ upRead = 0
    /\ gen = "created"
    /\ out = <<>>
    /\ disconnected = FALSE
    /\ caught = NoExc
    /\ propagated = FALSE
    /\ decodes = 0
    /\ renders = 0
    /\ reqs = <<>>
    /\ heap = <<>>
    /\ loop = 0

----------------------------------------------------------------------------
(* The Groq call: services/groq.py and GroqTranscriptionService *)

\* the form fields of the transcription request
groq_data(model, prompt, language) ==
    LET data == ("model" :> model) @@ ("response_format" :> "text")
        with_prompt == IF Truthy(prompt) THEN ("prompt" :> prompt) @@ data ELSE data
    IN  IF Truthy(language) THEN ("language" :> language) @@ with_prompt ELSE with_prompt

groq_call(model, prompt, language, decoded) ==
    [provider |-> "groq",
     data |-> groq_data(model, prompt, language),
     file |-> [filename |-> "audio." \o decoded.extension, content |-> decoded.bytes,
               mime |-> decoded.mime]]

\* response.raise_for_status() passes
is_success(resp) == resp.status_code >= 200 /\ resp.status_code <= 299

\* a message that leaves the upstream body out
groq_status_message_without_body(resp) ==
    "Groq API error: " \o ToString(resp.status_code)

\* the message built from an HTTPStatusError
groq_status_message(resp) ==
    "Groq API error: " \o ToString(resp.status_code) \o " - " \o resp.text

\* a transcribe_audio_groq that decodes the audio before it looks at the credential
transcribe_audio_groq_send_decode_first(api_key, audio_base64, prompt, language) ==
    LET a == groq_decode(audio_base64) IN
        IF a.status = "error"
        THEN [exc |-> a.error, audio |-> a, decoded |-> 1, call |-> <<>>]
        ELSE IF api_key = ""
        THEN [exc |-> Exc("ValueError", "GROQ API key is not configured."),
              audio |-> a, decoded |-> 1, call |-> <<>>]
        ELSE [exc |-> NoExc, audio |-> a, decoded |-> 1,
              call |-> <<groq_call(WhisperLargeV3, prompt, language, a)>>]

\* a transcribe_audio_groq that posts the request a second time
transcribe_audio_groq_send_twice(api_key, audio_base64, prompt, language) ==
    IF api_key = ""
    THEN [exc |-> Exc("ValueError", "GROQ API key is not configured."),
          audio |-> NotDecoded, decoded |-> 0, call |-> <<>>]
    ELSE LET a == groq_decode(audio_base64) IN
         IF a.status = "error"
         THEN [exc |-> a.error, audio |-> a, decoded |-> 1, call |-> <<>>]
         ELSE [exc |-> NoExc, audio |-> a, decoded |-> 1,
               call |-> <<groq_call(WhisperLargeV3, prompt, language, a),
                          groq_call(WhisperLargeV3, prompt, language, a)>>]

\* transcribe_audio_groq up to the outbound call: the exception it raises, or the
\* decoded audio and the call it issues
transcribe_audio_groq_send(api_key, audio_base64, prompt, language) ==
    IF api_key = ""
    THEN [exc |-> Exc("ValueError", "GROQ API key is not configured."),
          audio |-> NotDecoded, decoded |-> 0, call |-> <<>>]
    ELSE LET a == groq_decode(audio_base64) IN
         IF a.status = "error"
         THEN [exc |-> a.error, audio |-> a, decoded |-> 1, call |-> <<>>]
         ELSE [exc |-> NoExc, audio |-> a, decoded |-> 1,
               call |-> <<groq_call(WhisperLargeV3, prompt, language, a)>>]

\* transcribe_audio_groq from the answer of the call: the text, or the exception
transcribe_audio_groq_receive(outcome) ==
    IF outcome.kind = "response" /\ is_success(outcome)
        THEN [exc |-> NoExc, text |-> outcome.text]
    ELSE IF outcome.kind = "response"
        THEN [exc |-> Exc("RuntimeError", groq_status_message(outcome)), text |-> None]
    ELSE IF outcome.kind = "RequestError"
        THEN [exc |-> Exc("RuntimeError", "Failed to connect to Groq API."), text |-> None]
    ELSE [exc |-> Exc("RuntimeError", "Failed to process Groq transcription."),
          text |-> None]

\* GroqTranscriptionService.transcribe up to the outbound call: the chunk it
\* yields before returning, or the prompt, the decoded audio and the call it issues
service_groq_send(api_key, audio_base64, model_id, tv) ==
    IF api_key = ""
    THEN [chunk |-> "Error: GROQ API key is not configured.", prompt |-> None,
          audio |-> NotDecoded, decoded |-> 0, call |-> <<>>]
    ELSE LET language == IF TruthyVars(tv) THEN Get(tv, "language") ELSE None
             prompt == service_initial_prompt(tv)
             a == decode_audio(audio_base64)
         IN  IF a.status = "error"
             THEN [chunk |-> "Error: " \o a.error.msg, prompt |-> prompt, audio |-> a,
                   decoded |-> 1, call |-> <<>>]
             ELSE [chunk |-> None, prompt |-> prompt, audio |-> a, decoded |-> 1,
                   call |-> <<groq_call(IF Len(model_id) > 0 THEN model_id
                                         ELSE WhisperLargeV3,
                                         prompt, language, a)>>]

\* GroqTranscriptionService.transcribe from the answer of the call: its one chunk
service_groq_receive(outcome) ==
    IF outcome.kind = "response" /\ is_success(outcome)
        THEN outcome.text
    ELSE IF outcome.kind = "response"
        THEN "Error: " \o groq_status_message(outcome)
    ELSE IF outcome.kind = "RequestError"
        THEN "Error: Failed to connect to Groq API."
    ELSE "Error: Failed to process Groq transcription."

----------------------------------------------------------------------------
(* The Gemini call: GeminiService.stream_response and                      *)
(* GeminiTranscriptionService.transcribe                                   *)

audio_part(decoded) ==
    [kind |-> "bytes", mime_type |-> decoded.mime, data |-> decoded.bytes]

text_part(prompt) == [kind |-> "text", text |-> prompt]

\* generate_content_stream(model, contents, config)
gemini_call(model_id, parts) ==
    [provider |-> "gemini", model |-> model_id, parts |-> parts, temperature |-> 0]

\* a loop that relays every fragment, with text or without
NextText_with_empty(frags, pos) ==
    IF pos >= Len(frags) THEN 0 ELSE pos + 1

\* the index of the next fragment with text after position pos, 0 when none is left
RECURSIVE NextText(_, _)
NextText(frags, pos) ==
    IF pos >= Len(frags) THEN 0
    ELSE IF frags[pos + 1] # "" THEN pos + 1
    ELSE NextText(frags, pos + 1)

\* a streaming loop that goes back to the stream after the outer handler's chunk
stream_next_resumes(up, pos) ==
    LET i == NextText(up.frags, pos) IN
        IF i # 0
            THEN [read |-> i, yields |-> TRUE, chunk |-> up.frags[i], gen |-> "streaming"]
        ELSE IF up.ending.raised
            THEN [read |-> Len(up.frags), yields |-> TRUE,
                  chunk |-> "Error: " \o up.ending.msg, gen |-> "streaming"]
        ELSE [read |-> Len(up.frags), yields |-> FALSE, chunk |-> None, gen |-> "returned"]

\* a streaming loop that opens the upstream again when it is exhausted
stream_next_restarts(up, pos) ==
    LET i == NextText(up.frags, pos)
        first == NextText(up.frags, 0)
    IN  IF i # 0
            THEN [read |-> i, yields |-> TRUE, chunk |-> up.frags[i], gen |-> "streaming"]
        ELSE IF first # 0
            THEN [read |-> first, yields |-> TRUE, chunk |-> up.frags[first],
                  gen |-> "streaming"]
        ELSE [read |-> Len(up.frags), yields |-> FALSE, chunk |-> None, gen |-> "returned"]

\* one resumption of the streaming loop: the fragments it consumes and what it
\* does next: yield a fragment, yield the error chunk of the outer handler, or return
stream_next(up, pos) ==
    LET i == NextText(up.frags, pos) IN
        IF i # 0
            THEN [read |-> i, yields |-> TRUE, chunk |-> up.frags[i], gen |-> "streaming"]
        ELSE IF up.ending.raised
            THEN [read |-> Len(up.frags), yields |-> TRUE,
                  chunk |-> "Error: " \o up.ending.msg, gen |-> "failed"]
        ELSE [read |-> Len(up.frags), yields |-> FALSE, chunk |-> None, gen |-> "returned"]

\* GeminiService.stream_response up to the streaming call: the mapping as the
\* substitution leaves it, the exception of the render, the chunk yielded before
\* returning, or the call issued
stream_response_open(audio_base64, model_id, template_name, tv) ==
    LET templated == Truthy(template_name)
        vars_after == IF templated THEN normalize_language(tv) ELSE tv
        rendered == IF templated THEN render_template(template_name, vars_after)
                    ELSE [exc |-> NoExc, text |-> None]
        has_audio == Len(audio_base64) > 0
        a == IF has_audio THEN gemini_decode(audio_base64) ELSE NotDecoded
        parts == (IF has_audio THEN <<audio_part(a)>> ELSE <<>>)
                 \o (IF Truthy(rendered.text) THEN <<text_part(rendered.text)>> ELSE <<>>)
        base == [tv |-> vars_after, rendered |-> IF templated THEN 1 ELSE 0,
                 exc |-> NoExc, prompt |-> rendered.text, audio |-> a,
                 decoded |-> IF has_audio THEN 1 ELSE 0, chunk |-> None, call |-> <<>>]
    IN  IF rendered.exc.raised
            THEN [base EXCEPT !.exc = rendered.exc, !.audio = NotDecoded, !.decoded = 0]
        ELSE IF a.status = "error"
            THEN [base EXCEPT !.chunk = gemini_decode_chunk(a)]
        ELSE IF parts = <<>>
            THEN [base EXCEPT !.chunk = "Error: No input provided (neither text nor audio)"]
        ELSE [base EXCEPT !.call = <<gemini_call(model_id, parts)>>]

\* GeminiTranscriptionService.transcribe up to the streaming call
service_gemini_open(audio_base64, model_id, template_name, tv) ==
    LET templated == Truthy(template_name) /\ TruthyVars(tv)
        vars_after == IF templated THEN normalize_language(tv) ELSE tv
        rendered == IF templated THEN render_template(template_name, vars_after)
                    ELSE [exc |-> NoExc, text |-> None]
        a == decode_audio(audio_base64)
        parts == <<audio_part(a)>>
                 \o (IF Truthy(rendered.text) THEN <<text_part(rendered.text)>> ELSE <<>>)
        base == [tv |-> vars_after, rendered |-> IF templated THEN 1 ELSE 0,
                 exc |-> NoExc, prompt |-> rendered.text, audio |-> a,
                 decoded |-> 1, chunk |-> None, call |-> <<>>]
    IN  IF rendered.exc.raised
            THEN [base EXCEPT !.exc = rendered.exc, !.audio = NotDecoded, !.decoded = 0]
        ELSE IF a.status = "error"
            THEN [base EXCEPT !.chunk = "Error: " \o "Error processing audio data: "
                                        \o a.error.msg]
        ELSE [base EXCEPT !.call = <<gemini_call(model_id, parts)>>]

----------------------------------------------------------------------------
(* The controller: generate_stream *)

\* a validation that lets every request through
validate_nothing(req) == None

\* the two checks made before the stream starts: the detail of the HTTPException
\* raised, or None
validate(req) ==
    IF Len(req.audio_base64) = 0
        THEN "Request must include audio data"
    ELSE IF (req.template_name = "transcription.jinja2" \/ is_whisper(req.model_name))
            /\ Len(req.audio_base64) = 0
        THEN "Audio data is required for transcription or Whisper models"
    ELSE None

\* an effective mapping that gets the default language only
with_defaults_language_only(tv) ==
    LET base == IF TruthyVars(tv) THEN tv ELSE EmptyVars IN
        IF "language" \notin DOMAIN base
        THEN base @@ ("language" :> default_language) ELSE base

\* the effective mapping: the request's, with the defaults for language and context
with_defaults(tv) ==
    LET base == IF TruthyVars(tv) THEN tv ELSE EmptyVars
        with_language == IF "language" \notin DOMAIN base
                         THEN base @@ ("language" :> default_language) ELSE base
    IN  IF "context" \notin DOMAIN with_language
        THEN with_language @@ ("context" :> default_context) ELSE with_language

\* the except clauses of generate
handle(exc) ==
    IF exc.cls = "HTTPException"
        THEN [propagate |-> TRUE, chunk |-> None]
    ELSE IF exc.cls = "ValueError"
        THEN [propagate |-> FALSE, chunk |-> "Error: " \o exc.msg]
    ELSE IF exc.cls = "RuntimeError"
        THEN [propagate |-> FALSE, chunk |-> "Error: " \o exc.msg]
    ELSE [propagate |-> FALSE, chunk |-> "An unexpected error occurred."]

\* a controller that never looks at the disconnect
relays_without_check(is_disconnected) == TRUE

\* the disconnect check between the pull of a chunk and its yield: TRUE to yield
\* the chunk, FALSE to break
relays(is_disconnected) == ~is_disconnected

\* the request's mapping is the object the provider mutates
Aliased ==
    IF entry = "gateway" THEN TruthyVars(body.template_vars)
    ELSE ~IsNone(body.template_vars)

\* an assignment into the mapping reaches the request when the two are one object
Mutate(tv) ==
    /\ template_vars' = tv
    /\ request' = IF Aliased THEN [request EXCEPT !.template_vars = tv] ELSE request

\* an exception reaches the handlers of generate
Catch(exc) ==
    /\ caught' = exc
    /\ propagated' = handle(exc).propagate
    /\ out' = IF handle(exc).propagate THEN out ELSE Append(out, handle(exc).chunk)
    /\ pc' = "done"

----------------------------------------------------------------------------
(* Actions of the gateway: app/api/endpoints.py *)

\* generate_stream up to the StreamingResponse: reject the request, or build the
\* effective mapping
Validate ==
    /\ entry = "gateway"
    /\ pc = "request"
    /\ IF validate(request) # None
       THEN /\ pc' = "rejected"
            /\ detail' = validate(request)
            /\ UNCHANGED <<template_vars, request>>
       ELSE /\ pc' = "ready"
            /\ detail' = detail
            /\ Mutate(with_defaults(request.template_vars))
    /\ UNCHANGED <<entry, body, groq_api_key, initial_prompt, provider, rendered_prompt,
                   audio, calls, response, upstream, upRead, gen, out, disconnected, caught,
                   propagated, decodes, renders>>
    /\ UNCHANGED concurrent

\* generate, Whisper branch, up to the await of the outbound call
GatewayGroqSend ==
    /\ entry = "gateway"
    /\ pc = "ready"
    /\ is_whisper(request.model_name)
    /\ LET prompt == initial_prompt_for_groq(template_vars)
           sent == transcribe_audio_groq_send(groq_api_key, request.audio_base64,
                                              prompt, Get(template_vars, "language"))
       IN  /\ provider' = "groq"
           /\ initial_prompt' = prompt
           /\ IF Len(request.audio_base64) = 0
              THEN /\ out' = Append(out, "Error: Audio data is required for Whisper models.")
                   /\ pc' = "done"
                   /\ UNCHANGED <<audio, decodes, calls, caught, propagated>>
              ELSE /\ audio' = sent.audio
                   /\ decodes' = decodes + sent.decoded
                   /\ calls' = calls \o sent.call
                   /\ IF sent.exc.raised
                      THEN Catch(sent.exc)
                      ELSE /\ pc' = "groq_await"
                           /\ UNCHANGED <<out, caught, propagated>>
    /\ gen' = "running"
    /\ UNCHANGED <<response, entry, body, request, groq_api_key, detail, template_vars,
                   rendered_prompt, upstream, upRead, disconnected, renders>>
    /\ UNCHANGED concurrent

\* generate, Whisper branch, from the answer of the outbound call to its end
GatewayGroqReceive ==
    /\ entry = "gateway"
    /\ pc = "groq_await"
    /\ \E outcome \in GroqOutcomes :
          LET got == transcribe_audio_groq_receive(outcome) IN
              /\ response' = outcome
              /\ IF got.exc.raised
                 THEN Catch(got.exc)
                 ELSE /\ out' = Append(out, got.text)
                      /\ pc' = "done"
                      /\ UNCHANGED <<caught, propagated>>
    /\ gen' = "returned"
    /\ UNCHANGED <<entry, body, request, groq_api_key, detail, template_vars,
                   initial_prompt, provider, rendered_prompt, audio, calls, upstream,
                   upRead, disconnected, decodes, renders>>
    /\ UNCHANGED concurrent

\* generate, Gemini branch: the first resumption of stream_response up to the
\* streaming call; a chunk it yields passes the disconnect check
GatewayGeminiOpen ==
    /\ entry = "gateway"
    /\ pc = "ready"
    /\ ~is_whisper(request.model_name)
    /\ LET opened == stream_response_open(request.audio_base64, request.model_name,
                                          request.template_name, template_vars)
       IN  /\ provider' = "gemini"
           /\ Mutate(opened.tv)
           /\ renders' = renders + opened.rendered
           /\ rendered_prompt' = opened.prompt
           /\ audio' = opened.audio
           /\ decodes' = decodes + opened.decoded
           /\ calls' = calls \o opened.call
           /\ IF opened.exc.raised
              THEN /\ Catch(opened.exc)
                   /\ gen' = "failed"
                   /\ upstream' = upstream
              ELSE IF opened.chunk # None
              THEN /\ gen' = "failed"
                   /\ upstream' = upstream
                   /\ IF relays(disconnected)
                      THEN pc' = "streaming" /\ out' = Append(out, opened.chunk)
                      ELSE pc' = "done" /\ out' = out
                   /\ UNCHANGED <<caught, propagated>>
              ELSE /\ gen' = "streaming"
                   /\ upstream' \in Upstreams
                   /\ pc' = "streaming"
                   /\ UNCHANGED <<out, caught, propagated>>
    /\ UNCHANGED <<response, entry, body, groq_api_key, detail, initial_prompt, upRead,
                   disconnected>>
    /\ UNCHANGED concurrent

\* one turn of `async for chunk in stream`: resume stream_response, then check the
\* disconnect, then yield the chunk
GatewayPull ==
    /\ entry = "gateway"
    /\ pc = "streaming"
    /\ IF gen = "failed"
       THEN /\ pc' = "done"
            /\ gen' = "returned"
            /\ UNCHANGED <<upRead, out>>
       ELSE LET next == stream_next(upstream, upRead) IN
            /\ upRead' = next.read
            /\ gen' = next.gen
            /\ IF ~next.yields
               THEN pc' = "done" /\ out' = out
               ELSE IF relays(disconnected)
               THEN pc' = "streaming" /\ out' = Append(out, next.chunk)
               ELSE pc' = "done" /\ out' = out
    /\ UNCHANGED <<entry, body, request, groq_api_key, detail, template_vars,
                   initial_prompt, provider, rendered_prompt, audio, calls, response, upstream,
                   disconnected, caught, propagated, decodes, renders>>
    /\ UNCHANGED concurrent

\* the client goes away: from now on req.is_disconnected() answers True
Disconnect ==
    /\ entry = "gateway"
    /\ pc \in {"ready", "groq_await", "streaming"}
    /\ ~disconnected
    /\ disconnected' = TRUE
    /\ UNCHANGED <<entry, body, request, groq_api_key, pc, detail, template_vars,
                   initial_prompt, provider, rendered_prompt, audio, calls, response, upstream,
                   upRead, gen, out, caught, propagated, decodes, renders>>
    /\ UNCHANGED concurrent

----------------------------------------------------------------------------
(* Actions of the service layer: app/services/transcription_service.py *)

\* get_transcription_service(provider), and the call of transcribe
ServiceSelect ==
    /\ entry = "service"
    /\ pc = "request"
    /\ provider' = get_transcription_service(request.model_name)
    /\ template_vars' = request.template_vars
    /\ pc' = "ready"
    /\ UNCHANGED <<entry, body, request, groq_api_key, detail, initial_prompt,
                   rendered_prompt, audio, calls, response, upstream, upRead, gen, out,
                   disconnected, caught, propagated, decodes, renders>>
    /\ UNCHANGED concurrent

\* GroqTranscriptionService.transcribe up to the await of the outbound call
ServiceGroqSend ==
    /\ entry = "service"
    /\ pc = "ready"
    /\ provider = "groq"
    /\ LET sent == service_groq_send(groq_api_key, request.audio_base64,
                                     request.model_name, template_vars)
       IN  /\ initial_prompt' = sent.prompt
           /\ audio' = sent.audio
           /\ decodes' = decodes + sent.decoded
           /\ calls' = calls \o sent.call
           /\ IF sent.chunk # None
              THEN out' = Append(out, sent.chunk) /\ pc' = "done" /\ gen' = "returned"
              ELSE out' = out /\ pc' = "groq_await" /\ gen' = "running"
    /\ UNCHANGED <<response, entry, body, request, groq_api_key, detail, template_vars, provider,
                   rendered_prompt, upstream, upRead, disconnected, caught, propagated,
                   renders>>
    /\ UNCHANGED concurrent

\* GroqTranscriptionService.transcribe from the answer of the outbound call
ServiceGroqReceive ==
    /\ entry = "service"
    /\ pc = "groq_await"
    /\ \E outcome \in GroqOutcomes :
          /\ response' = outcome
          /\ out' = Append(out, service_groq_receive(outcome))
    /\ pc' = "done"
    /\ gen' = "returned"
    /\ UNCHANGED <<entry, body, request, groq_api_key, detail, template_vars,
                   initial_prompt, provider, rendered_prompt, audio, calls, upstream,
                   upRead, disconnected, caught, propagated, decodes, renders>>
    /\ UNCHANGED concurrent

\* GeminiTranscriptionService.transcribe up to the streaming call; an exception of
\* the render leaves the generator
ServiceGeminiOpen ==
    /\ entry = "service"
    /\ pc = "ready"
    /\ provider = "gemini"
    /\ LET opened == service_gemini_open(request.audio_base64, request.model_name,
                                         request.template_name, template_vars)
       IN  /\ Mutate(opened.tv)
           /\ renders' = renders + opened.rendered
           /\ rendered_prompt' = opened.prompt
           /\ audio' = opened.audio
           /\ decodes' = decodes + opened.decoded
           /\ calls' = calls \o opened.call
           /\ IF opened.exc.raised
              THEN /\ propagated' = TRUE
                   /\ pc' = "done"
                   /\ gen' = "failed"
                   /\ UNCHANGED <<out, upstream>>
              ELSE IF opened.chunk # None
              THEN /\ out' = Append(out, opened.chunk)
                   /\ pc' = "streaming"
                   /\ gen' = "failed"
                   /\ UNCHANGED <<propagated, upstream>>
              ELSE /\ upstream' \in Upstreams
                   /\ pc' = "streaming"
                   /\ gen' = "streaming"
                   /\ UNCHANGED <<out, propagated>>
    /\ UNCHANGED <<response, entry, body, groq_api_key, detail, initial_prompt, provider, upRead,
                   disconnected, caught>>
    /\ UNCHANGED concurrent

\* one resumption of GeminiTranscriptionService.transcribe by its consumer
ServicePull ==
    /\ entry = "service"
    /\ pc = "streaming"
    /\ IF gen = "failed"
       THEN /\ pc' = "done"
            /\ gen' = "returned"
            /\ UNCHANGED <<upRead, out>>
       ELSE LET next == stream_next(upstream, upRead) IN
            /\ upRead' = next.read
            /\ gen' = next.gen
            /\ IF next.yields
               THEN pc' = "streaming" /\ out' = Append(out, next.chunk)
               ELSE pc' = "done" /\ out' = out
    /\ UNCHANGED <<entry, body, request, groq_api_key, detail, template_vars,
                   initial_prompt, provider, rendered_prompt, audio, calls, response, upstream,
                   disconnected, caught, propagated, decodes, renders>>
    /\ UNCHANGED concurrent

----------------------------------------------------------------------------

Next ==
    \/ Validate
    \/ GatewayGroqSend
    \/ GatewayGroqReceive
    \/ GatewayGeminiOpen
    \/ GatewayPull
    \/ Disconnect
    \/ ServiceSelect
    \/ ServiceGroqSend
    \/ ServiceGroqReceive
    \/ ServiceGeminiOpen
    \/ ServicePull

Spec == Init /\ [][Next]_vars

\* the requests followed to their end: one payload that decodes and one that
\* does not, one model of each provider, every template name, a mapping absent
\* and a mapping with a language code
LiveBodies ==
    [audio_base64 : {WavAudio, GarbageAudio},
     model_name : {WhisperLargeV3, GeminiFlash},
     template_name : TemplateNames,
     template_vars : {NoneVars, ("language" :> "pt")}]

LiveInit ==
    /\ entry \in {"gateway", "service"}
    /\ body \in LiveBodies
    /\ request = body
    /\ groq_api_key \in {"", "gsk_key"}
    /\ pc = "request"
    /\ detail = None
    /\ template_vars = NoneVars
    /\ initial_prompt = None
    /\ provider = None
    /\ rendered_prompt = None
    /\ audio = NotDecoded
    /\ calls = <<>>
    /\ response = NoResponse
    /\ upstream = NoUpstream
    /\ upRead = 0
    /\ gen = "created"
    /\ out = <<>>
    /\ disconnected = FALSE
    /\ caught = NoExc
    /\ propagated = FALSE
    /\ decodes = 0
    /\ renders = 0
    /\ reqs = <<>>
    /\ heap = <<>>
    /\ loop = 0

\* the server keeps iterating the chunk sequence it was given, and an awaited
\* call or pull is answered
FairSpec ==
    /\ LiveInit
    /\ [][Next]_vars
    /\ WF_vars(Validate)
    /\ WF_vars(GatewayGroqSend)
    /\ WF_vars(GatewayGroqReceive)
    /\ WF_vars(GatewayGeminiOpen)
    /\ WF_vars(GatewayPull)
    /\ WF_vars(ServiceSelect)
    /\ WF_vars(ServiceGroqSend)
    /\ WF_vars(ServiceGroqReceive)
    /\ WF_vars(ServiceGeminiOpen)
    /\ WF_vars(ServicePull)

----------------------------------------------------------------------------
(* Concurrent requests: the handlers of app/api/endpoints.py on one event    *)
(* loop.  A request runs from one await to the next without interruption; a *)
(* call made without await keeps the loop until it returns.                 *)

Requests == {1, 2}

\* longest upstream streaming response of a concurrent request, in fragments
MaxConcurrentFragments == 2

ConcurrentBodies ==
    [audio_base64 : {WavAudio},
     model_name : {WhisperLargeV3, GeminiFlash},
     template_name : {default_template_name},
     template_vars : {NoneVars, ("language" :> "pt")}]

ConcurrentUpstreams ==
    [frags : {[i \in 1..n |-> FragmentText(i)] : n \in 0..MaxConcurrentFragments},
     ending : {NoExc, Exc("APIError", "503 UNAVAILABLE")}]

ConcurrentOutcomes == {o \in GroqOutcomes : o.kind = "response" /\ o.text # ""}

\* the mapping objects: 0 is an object made at import time, which the code does
\* not have; object r is the dict of request r's body; the dict made for request
\* r by `or {}` is a new object
Objects == 0..(2 * Cardinality(Requests))

RequestDict(r) == r

NewDict(r) == Cardinality(Requests) + r

\* a default mapping made once and handed to every request that gives none
effective_vars_ref_shared_default(r, tv) ==
    IF TruthyVars(tv) THEN RequestDict(r) ELSE 0

\* template_vars = request.template_vars or {}: the object the name is bound to
effective_vars_ref(r, tv) ==
    IF TruthyVars(tv) THEN RequestDict(r) ELSE NewDict(r)

NewRequest(b) ==
    [body |-> b, pc |-> "request", detail |-> None, ref |-> 0, initial_prompt |-> None,
     rendered_prompt |-> None, calls |-> <<>>, response |-> NoResponse,
     upstream |-> NoUpstream, upRead |-> 0, gen |-> "created", out |-> <<>>,
     disconnected |-> FALSE]

\* the variables of the request followed alone
single == <<entry, body, request, pc, detail, template_vars, initial_prompt, provider,
            rendered_prompt, audio, calls, response, upstream, upRead, gen, out,
            disconnected, caught, propagated, decodes, renders>>

ConcurrentInit ==
    /\ entry = "gateway"
    /\ body = [audio_base64 |-> EmptyAudio, model_name |-> GeminiFlash,
               template_name |-> None, template_vars |-> NoneVars]
    /\ request = body
    /\ groq_api_key \in {"", "gsk_key"}
    /\ pc = "request"
    /\ detail = None
    /\ template_vars = NoneVars
    /\ initial_prompt = None
    /\ provider = None
    /\ rendered_prompt = None
    /\ audio = NotDecoded
    /\ calls = <<>>
    /\ response = NoResponse
    /\ upstream = NoUpstream
    /\ upRead = 0
    /\ gen = "created"
    /\ out = <<>>
    /\ disconnected = FALSE
    /\ caught = NoExc
    /\ propagated = FALSE
    /\ decodes = 0
    /\ renders = 0
    /\ reqs \in [Requests -> {NewRequest(b) : b \in ConcurrentBodies}]
    /\ heap = [o \in Objects |->
                  IF o \in Requests THEN reqs[o].body.template_vars ELSE EmptyVars]
    /\ loop = 0

\* generate_stream up to the StreamingResponse, for request r
ConcurrentValidate(r) ==
    /\ loop = 0
    /\ reqs[r].pc = "request"
    /\ IF validate(reqs[r].body) # None
       THEN /\ reqs' = [reqs EXCEPT ![r].pc = "rejected",
                                    ![r].detail = validate(reqs[r].body)]
            /\ heap' = heap
       ELSE LET ref == effective_vars_ref(r, heap[RequestDict(r)]) IN
            /\ reqs' = [reqs EXCEPT ![r].pc = "ready", ![r].ref = ref]
            /\ heap' = [heap EXCEPT ![ref] = with_defaults(heap[ref])]
    /\ UNCHANGED <<loop, groq_api_key, single>>

\* generate, Whisper branch, up to `await client.post`: the request is suspended
\* and the loop is free
ConcurrentGroqSend(r) ==
    /\ loop = 0
    /\ reqs[r].pc = "ready"
    /\ is_whisper(reqs[r].body.model_name)
    /\ LET me == reqs[r]
           prompt == initial_prompt_for_groq(heap[me.ref])
           sent == transcribe_audio_groq_send(groq_api_key, me.body.audio_base64, prompt,
                                              Get(heap[me.ref], "language"))
       IN  reqs' = [reqs EXCEPT
                ![r].initial_prompt = prompt,
                ![r].calls = me.calls \o sent.call,
                ![r].gen = "running",
                ![r].pc = IF sent.exc.raised THEN "done" ELSE "groq_await",
                ![r].out = IF sent.exc.raised /\ ~handle(sent.exc).propagate
                           THEN Append(me.out, handle(sent.exc).chunk) ELSE me.out]
    /\ UNCHANGED <<heap, loop, groq_api_key, single>>

\* generate, Whisper branch, resumed with the answer of the call
ConcurrentGroqReceive(r) ==
    /\ loop = 0
    /\ reqs[r].pc = "groq_await"
    /\ \E outcome \in ConcurrentOutcomes :
          LET got == transcribe_audio_groq_receive(outcome) IN
              reqs' = [reqs EXCEPT
                  ![r].response = outcome,
                  ![r].gen = "returned",
                  ![r].pc = "done",
                  ![r].out = IF ~got.exc.raised THEN Append(reqs[r].out, got.text)
                             ELSE IF handle(got.exc).propagate THEN reqs[r].out
                             ELSE Append(reqs[r].out, handle(got.exc).chunk)]
    /\ UNCHANGED <<heap, loop, groq_api_key, single>>

\* generate, Gemini branch: stream_response up to generate_content_stream, a call
\* made without await: the request keeps the loop while the upstream is awaited
ConcurrentGeminiOpen(r) ==
    /\ loop = 0
    /\ reqs[r].pc = "ready"
    /\ ~is_whisper(reqs[r].body.model_name)
    /\ LET me == reqs[r]
           opened == stream_response_open(me.body.audio_base64, me.body.model_name,
                                          me.body.template_name, heap[me.ref])
       IN  /\ heap' = [heap EXCEPT ![me.ref] = opened.tv]
           /\ IF opened.exc.raised
              THEN /\ reqs' = [reqs EXCEPT
                          ![r].rendered_prompt = opened.prompt,
                          ![r].gen = "failed",
                          ![r].pc = "done",
                          ![r].out = IF handle(opened.exc).propagate THEN me.out
                                     ELSE Append(me.out, handle(opened.exc).chunk)]
                   /\ loop' = loop
              ELSE IF opened.chunk # None
              THEN /\ reqs' = [reqs EXCEPT
                          ![r].rendered_prompt = opened.prompt,
                          ![r].gen = "failed",
                          ![r].pc = IF relays(me.disconnected) THEN "streaming" ELSE "done",
                          ![r].out = IF relays(me.disconnected)
                                     THEN Append(me.out, opened.chunk) ELSE me.out]
                   /\ loop' = loop
              ELSE /\ \E up \in ConcurrentUpstreams :
                          reqs' = [reqs EXCEPT
                              ![r].rendered_prompt = opened.prompt,
                              ![r].calls = me.calls \o opened.call,
                              ![r].upstream = up,
                              ![r].gen = "streaming",
                              ![r].pc = "pulling"]
                   /\ loop' = r
    /\ UNCHANGED <<groq_api_key, single>>

\* `async for chunk in stream`: stream_response is resumed and goes back to
\* `for chunk in response_stream`, a read made without await
ConcurrentPull(r) ==
    /\ loop = 0
    /\ reqs[r].pc = "streaming"
    /\ IF reqs[r].gen = "failed"
       THEN /\ reqs' = [reqs EXCEPT ![r].pc = "done", ![r].gen = "returned"]
            /\ loop' = loop
       ELSE /\ reqs' = [reqs EXCEPT ![r].pc = "pulling"]
            /\ loop' = r
    /\ UNCHANGED <<heap, groq_api_key, single>>

\* the upstream answers the read: stream_response yields or returns, and generate
\* checks the disconnect before it yields the chunk
ConcurrentPulled(r) ==
    /\ loop = r
    /\ reqs[r].pc = "pulling"
    /\ LET me == reqs[r]
           next == stream_next(me.upstream, me.upRead)
       IN  reqs' = [reqs EXCEPT
               ![r].upRead = next.read,
               ![r].gen = next.gen,
               ![r].pc = IF next.yields /\ relays(me.disconnected)
                         THEN "streaming" ELSE "done",
               ![r].out = IF next.yields /\ relays(me.disconnected)
                          THEN Append(me.out, next.chunk) ELSE me.out]
    /\ loop' = 0
    /\ UNCHANGED <<heap, groq_api_key, single>>

\* the client of request r goes away
ConcurrentDisconnect(r) ==
    /\ reqs[r].pc \in {"ready", "groq_await", "streaming", "pulling"}
    /\ ~reqs[r].disconnected
    /\ reqs' = [reqs EXCEPT ![r].disconnected = TRUE]
    /\ UNCHANGED <<heap, loop, groq_api_key, single>>

ConcurrentNext ==
    \/ \E r \in Requests : ConcurrentValidate(r)
    \/ \E r \in Requests : ConcurrentGroqSend(r)
    \/ \E r \in Requests : ConcurrentGroqReceive(r)
    \/ \E r \in Requests : ConcurrentGeminiOpen(r)
    \/ \E r \in Requests : ConcurrentPull(r)
    \/ \E r \in Requests : ConcurrentPulled(r)
    \/ \E r \in Requests : ConcurrentDisconnect(r)

ConcurrentSpec == ConcurrentInit /\ [][ConcurrentNext]_vars

----------------------------------------------------------------------------
(* Properties *)

Gateway == entry = "gateway"

Last(seq) == seq[Len(seq)]

C2_NoReadAfterDisconnect ==
    [][(Gateway /\ provider = "gemini" /\ disconnected /\ Len(out) >= 1)
        => \A i \in (upRead + 1)..upRead' : upstream.frags[i] = ""]_vars

\* C2 amended: on the multimodal path, once the client has disconnected, no chunk
\* is relayed any more (so exactly the k chunks relayed before, and no error
\* chunk), and the one resumption of the provider that may still happen reads at
\* most one further fragment with text, which is dropped, and ends the stream.
C2_DisconnectStopsRelay ==
    [][(Gateway /\ provider = "gemini" /\ disconnected) =>
        /\ out' = out
        /\ upRead' # upRead =>
            /\ pc' = "done"
            /\ \A i \in (upRead + 1)..(upRead' - 1) : upstream.frags[i] = ""]_vars

\* C2 witness: three fragments with text were available, the client left after
\* the first was relayed, and the stream has ended with that one chunk.
C2_Witness ==
    /\ Gateway
    /\ provider = "gemini"
    /\ disconnected
    /\ pc = "done"
    /\ upstream.frags = <<FragmentText(1), FragmentText(2), FragmentText(3)>>
    /\ out = <<FragmentText(1)>>
    /\ upRead = 2

\* the chunk the claim assigns to an exception of a class
ClaimedErrorChunk(exc) ==
    IF exc.cls \in {"ValueError", "RuntimeError"}
    THEN "Error: " \o exc.msg
    ELSE "An unexpected error occurred."

\* C3 as stated: once the stream has started no exception raised during provider
\* work leaves the chunk sequence; a value or runtime error becomes the chunk
\* "Error: <message>", any other error the fixed generic chunk, and the stream
\* then ends.
C3_ErrorsBecomeChunks ==
    Gateway =>
        /\ ~propagated
        /\ caught.raised => (pc = "done" /\ out # <<>> /\ Last(out) = ClaimedErrorChunk(caught))
        /\ (provider = "gemini" /\ gen = "failed" /\ upstream.ending.raised
            /\ pc = "streaming")
            => (out # <<>> /\ Last(out) = ClaimedErrorChunk(upstream.ending))


\* the tested request: valid WAV audio, model "whisper-large-v3", variables
\* {context: "Medical"}, answered with success by the upstream
C4_Case ==
    /\ Gateway
    /\ body.audio_base64 = WavAudio
    /\ body.model_name = WhisperLargeV3
    /\ body.template_vars = ("context" :> "Medical")
    /\ pc = "done"
    /\ response.kind = "response"
    /\ is_success(response)

\* C4 as stated: end to end, the tested request produces a stream whose only
\* chunk is the upstream transcription text, and its single outbound call
\* carries the prompt field "Context: Medical".
C4_PromptContextMedical ==
    C4_Case =>
        /\ out = <<response.text>>
        /\ Len(calls) = 1
        /\ "prompt" \in DOMAIN calls[1].data
        /\ calls[1].data["prompt"] = "Context: Medical"

\* C4 amended: end to end, the tested request produces a stream whose only chunk
\* is the upstream transcription text, and its single outbound call carries the
\* prompt field "Medical".
C4_PromptMedical ==
    C4_Case =>
        /\ out = <<response.text>>
        /\ Len(calls) = 1
        /\ "prompt" \in DOMAIN calls[1].data
        /\ calls[1].data["prompt"] = "Medical"

\* C4 witness: the tested request has been answered with the transcription text.
C4_Witness ==
    /\ C4_Case
    /\ out = <<"transcribed text">>
    /\ calls[1].provider = "groq"

\* the budgeted prompt the claim describes: the context and the previous context
\* that are present and non-empty, in that order, joined by one space
ClaimedBudget(tv) ==
    LET context == Get(tv, "context")
        previous == Get(tv, "previous_context")
    IN  IF Truthy(context) /\ Truthy(previous) THEN context \o " " \o previous
        ELSE IF Truthy(context) THEN context
        ELSE IF Truthy(previous) THEN previous
        ELSE None

\* C5 as stated: the budgeted prompt of every single-shot call is the context and
\* the previous context joined by one space with nothing else added, and is
\* absent when neither is present.
C5_BudgetIsPlainJoin ==
    (provider = "groq" /\ Len(calls) = 1) =>
        /\ initial_prompt = ClaimedBudget(template_vars)
        /\ IF ClaimedBudget(template_vars) = None
           THEN "prompt" \notin DOMAIN calls[1].data
           ELSE /\ "prompt" \in DOMAIN calls[1].data
                /\ calls[1].data["prompt"] = ClaimedBudget(template_vars)

\* the provider the claim assigns to an identifier
ClaimedProvider(identifier) ==
    IF Contains(Lower(identifier), Whisper) \/ Contains(Lower(identifier), Groq)
    THEN "groq"
    ELSE "gemini"

\* C6 as stated: the provider serving a request is the single-shot provider when
\* the identifier contains "whisper" or "groq" in any case, and the multimodal
\* provider otherwise.
C6_SelectionBySubstring ==
    provider # None => provider = ClaimedProvider(body.model_name)

\* C7: when the upstream of the single-shot provider answers with a non-success
\* status, the provider's output is exactly one chunk, the error string that
\* carries the status code and the body text; for status 500 and body
\* "server error" it is "Error: Groq API error: 500 - server error".
C7_StatusErrorChunk ==
    (provider = "groq" /\ response.kind = "response" /\ ~is_success(response)) =>
        /\ pc = "done"
        /\ out = <<"Error: Groq API error: " \o ToString(response.status_code)
                   \o " - " \o response.text>>
        /\ (response.status_code = 500 /\ response.text = "server error")
            => out = <<"Error: Groq API error: 500 - server error">>
        /\ Len(calls) = 1

\* C7 witness: the service-layer provider has answered a 500 "server error".
C7_Witness ==
    /\ entry = "service"
    /\ provider = "groq"
    /\ response.status_code = 500
    /\ response.text = "server error"
    /\ out = <<"Error: Groq API error: 500 - server error">>

\* C8: the single-shot provider's output is exactly one chunk and then ends,
\* whatever the input and the upstream outcome; on success the chunk is the whole
\* response body; without a credential the chunk is the "Error: ..." chunk and
\* nothing is decoded or sent.
C8_SingleShotOneChunk ==
    provider = "groq" =>
        /\ ~propagated
        /\ Len(calls) <= 1
        /\ pc # "done" => out = <<>>
        /\ pc = "done" => Len(out) = 1
        /\ (pc = "done" /\ response.kind = "response" /\ is_success(response))
            => out = <<response.text>>
        /\ groq_api_key = "" =>
            /\ decodes = 0
            /\ calls = <<>>
            /\ audio = NotDecoded
            /\ pc = "done" => out = <<"Error: GROQ API key is not configured.">>

\* C8 witness: a request with decodable audio reached the single-shot provider
\* of the gateway without a credential, and the stream has ended.
C8_Witness ==
    /\ Gateway
    /\ provider = "groq"
    /\ groq_api_key = ""
    /\ body.audio_base64 = WavAudio
    /\ pc = "done"
    /\ Len(out) = 1

\* the failure the shared decode reports, by its message
FailureKind(a) ==
    IF a.error.msg = "Invalid Base64-encoded audio data." THEN "InvalidEncoding"
    ELSE IF a.error.msg = "Invalid audio file format." THEN "UnknownFormat"
    ELSE "other"

\* C9 as stated: the decode of _decode_audio and transcribe_audio_groq fails with
\* InvalidEncoding exactly when base64 decoding fails, and with UnknownFormat when
\* the payload decodes but matches no signature.
C9_DistinctDecodeFailures ==
    (audio.status = "error" /\ (provider = "groq" \/ entry = "service")) =>
        /\ FailureKind(audio) = "InvalidEncoding" <=> B64Fails(body.audio_base64)
        /\ ~B64Fails(body.audio_base64) => FailureKind(audio) = "UnknownFormat"

\* the value of language before the substitution
LanguageGiven ==
    IF Gateway THEN Get(with_defaults(body.template_vars), "language")
    ELSE Get(body.template_vars, "language")

\* C10: the language substitution is idempotent: applied to any mapping twice it
\* gives what it gives applied once, applied to the mapping the provider has
\* already substituted it changes nothing, no display name of the table is a
\* code of the table, and a value that is no code is left as it was given.
C10_NormalizeIdempotent ==
    /\ \A code \in DOMAIN LANGUAGE_DICT : LANGUAGE_DICT[code] \notin DOMAIN LANGUAGE_DICT
    /\ ~IsNone(template_vars) =>
        normalize_language(normalize_language(template_vars))
            = normalize_language(template_vars)
    /\ renders > 0 =>
        /\ normalize_language(template_vars) = template_vars
        /\ LanguageGiven \notin DOMAIN LANGUAGE_DICT
            => Get(template_vars, "language") = LanguageGiven

\* C10 witness: a request that gave the code "pt" has been rendered with
\* "Português".
C10_Witness ==
    /\ renders > 0
    /\ Get(body.template_vars, "language") = "pt"
    /\ Get(template_vars, "language") = "Português"

\* the fragments with text, in the order the upstream produced them
NonEmpty(frags) == SelectSeq(frags, LAMBDA f : f # "")

\* a delivered chunk that is no text of the upstream: not a fragment of the
\* streaming response and not the body of a successful Groq response
IsErrorChunk(c) ==
    /\ c # ""
    /\ \A i \in DOMAIN upstream.frags : c # upstream.frags[i]
    /\ \A o \in GroqOutcomes : (o.kind = "response" /\ is_success(o)) => c # o.text

NonError(chunks) == SelectSeq(chunks, LAMBDA c : ~IsErrorChunk(c))

IsPrefix(s, t) == Len(s) <= Len(t) /\ s = SubSeq(t, 1, Len(s))

\* C11: on the multimodal relay the non-error chunks delivered are, at every
\* moment, a prefix of the upstream's fragments with text, in the upstream's
\* order with nothing reordered, repeated or left out; when the stream has ended
\* with no disconnect and no upstream failure they are all of them.
C11_RelayIsPrefix ==
    provider = "gemini" =>
        /\ IsPrefix(NonError(out), NonEmpty(upstream.frags))
        /\ (pc = "done" /\ Len(calls) = 1 /\ ~disconnected /\ ~upstream.ending.raised)
            => NonError(out) = NonEmpty(upstream.frags)

\* C11 witness: the upstream produced a fragment with text, an empty one and a
\* fragment with text, and the gateway relayed the two with text, in order.
C11_Witness ==
    /\ Gateway
    /\ provider = "gemini"
    /\ pc = "done"
    /\ ~disconnected
    /\ upstream.frags = <<FragmentText(1), "", FragmentText(3)>>
    /\ ~upstream.ending.raised
    /\ out = <<FragmentText(1), FragmentText(3)>>

\* C12: no request issues more than one outbound call or calls a provider other
\* than the one serving it; once a call has been issued the list of calls never
\* changes again, whatever the upstream answers and whether or not the client
\* leaves; a request whose audio has been decoded (which on the single-shot
\* provider comes after the credential check) has issued exactly one call.
C12_OneAttempt ==
    /\ [](/\ Len(calls) <= 1
          /\ \A i \in DOMAIN calls : calls[i].provider = provider
          /\ audio.status = "ok" => Len(calls) = 1)
    /\ [][calls # <<>> => calls' = calls]_vars

\* C12 witness: the single call of a Whisper request was answered with a
\* transport failure, the client has left, and the stream has ended.
C12_Witness ==
    /\ Gateway
    /\ provider = "groq"
    /\ response.kind = "RequestError"
    /\ disconnected
    /\ pc = "done"
    /\ Len(calls) = 1

\* the messages that say nothing of their cause
FixedMessages ==
    {"An unexpected error occurred.", "Error: Failed to connect to Groq API.",
     "Error: Failed to process Groq transcription."}

\* C13 as stated: an exception of no expected class raised during upstream work,
\* on either provider, reaches the caller only as a fixed message that does not
\* depend on the exception's own message.
C13_UnexpectedMasked ==
    /\ (provider = "groq" /\ pc = "done" /\ response.kind \in {"RequestError", "Exception"})
        => Last(out) \in FixedMessages
    /\ (caught.raised /\ caught.cls \notin {"ValueError", "RuntimeError"})
        => Last(out) \in FixedMessages
    /\ (provider = "gemini" /\ gen = "failed" /\ upstream.ending.raised /\ out # <<>>
        /\ IsErrorChunk(Last(out)))
        => Last(out) \in FixedMessages

\* C14 as stated: on the multimodal provider, a connection error raised while the
\* next fragment is read from the upstream ends the relay with no error chunk:
\* the chunks already relayed are the whole output.
C14_TransportErrorIsBenign ==
    (provider = "gemini" /\ upstream.ending.cls = "ConnectionError"
     /\ gen \in {"failed", "returned"})
        => /\ \A i \in DOMAIN out : ~IsErrorChunk(out[i])
           /\ ~propagated

\* C15 as stated: the request's own template-variable mapping has, at every
\* moment of its handling, exactly the keys and values it arrived with.
C15_RequestMappingUntouched ==
    request.template_vars = body.template_vars

\* the mapping a provider is given for a request, before the substitution
GivenVars ==
    IF Gateway THEN with_defaults(body.template_vars)
    ELSE IF IsNone(body.template_vars) THEN EmptyVars
    ELSE body.template_vars

\* C16 as stated: on the multimodal provider, when a template name is given, for
\* every variable mapping, the template has been rendered once against the
\* mapping after the language substitution and the outbound call holds the audio
\* part and then the rendered text; when none is given it holds the audio part
\* alone.
C16_CallParts ==
    (provider = "gemini" /\ Len(calls) = 1) =>
        IF Truthy(body.template_name)
        THEN /\ renders = 1
             /\ rendered_prompt
                  = render_template(body.template_name, normalize_language(GivenVars)).text
             /\ calls[1].parts = <<audio_part(audio), text_part(rendered_prompt)>>
        ELSE /\ renders = 0
             /\ calls[1].parts = <<audio_part(audio)>>

\* C17: at most one error chunk is delivered, and an error chunk is the last
\* chunk of the stream: nothing is ever delivered after it, whether the failure
\* was in the audio, in the call or in the middle of the upstream stream.
C17_ErrorChunkIsLast ==
    /\ [](\A i \in DOMAIN out : IsErrorChunk(out[i]) => i = Len(out))
    /\ [][(out # <<>> /\ IsErrorChunk(Last(out))) => out' = out]_vars

\* C17 witness: the upstream failed after its first fragment; the error chunk
\* followed the fragment and the stream has ended.
C17_Witness ==
    /\ Gateway
    /\ provider = "gemini"
    /\ pc = "done"
    /\ upstream.ending.cls = "APIError"
    /\ out = <<FragmentText(1), "Error: 503 UNAVAILABLE">>

\* the chunk sequence of the request exists and has not ended
Started == pc \in {"ready", "groq_await", "streaming"}

\* C20: every started stream ends: it reaches its end, having delivered no more
\* chunks than the upstream has fragments with text plus one; once the client's
\* disconnect is observed between two chunks the sequence ends there with no
\* further chunk; an ended sequence stays ended and delivers nothing more.
C20_StreamTerminates ==
    /\ Started ~> pc = "done"
    /\ [](Len(out) <= Len(NonEmpty(upstream.frags)) + 1)
    /\ [][(Gateway /\ pc = "streaming" /\ disconnected)
            => (pc' = "done" /\ out' = out)]_vars
    /\ [][pc = "done" => (pc' = "done" /\ out' = out)]_vars

\* C20 witness: the service-layer relay delivered the three fragments of its
\* upstream and returned.
C20_Witness ==
    /\ entry = "service"
    /\ provider = "gemini"
    /\ pc = "done"
    /\ gen = "returned"
    /\ Len(out) = 3
    /\ upRead = 3

\* every chunk a streaming response yields from position pos to its end
RECURSIVE Drain(_, _)
Drain(up, pos) ==
    LET next == stream_next(up, pos) IN
        IF ~next.yields THEN <<>>
        ELSE IF next.gen = "failed" THEN <<next.chunk>>
        ELSE <<next.chunk>> \o Drain(up, next.read)

\* what request b gives when it runs alone: its effective mapping, and what the
\* provider then makes of it
AloneVars(b) == with_defaults(b.template_vars)

AloneSent(b) ==
    transcribe_audio_groq_send(groq_api_key, b.audio_base64,
                               initial_prompt_for_groq(AloneVars(b)),
                               Get(AloneVars(b), "language"))

AloneOpened(b) ==
    stream_response_open(b.audio_base64, b.model_name, b.template_name, AloneVars(b))

\* the chunks of a request that ran alone to the end of its stream, given what its
\* own upstream answered
AloneChunks(me) ==
    IF is_whisper(me.body.model_name)
    THEN IF AloneSent(me.body).exc.raised
             THEN <<handle(AloneSent(me.body).exc).chunk>>
         ELSE IF me.response = NoResponse THEN <<>>
         ELSE IF transcribe_audio_groq_receive(me.response).exc.raised
             THEN <<handle(transcribe_audio_groq_receive(me.response).exc).chunk>>
         ELSE <<transcribe_audio_groq_receive(me.response).text>>
    ELSE IF AloneOpened(me.body).exc.raised
             THEN <<handle(AloneOpened(me.body).exc).chunk>>
         ELSE IF AloneOpened(me.body).chunk # None THEN <<AloneOpened(me.body).chunk>>
         ELSE Drain(me.upstream, 0)

\* C18: in every interleaving of two requests, no two requests hold the same
\* mapping object, and each request's effective mapping, rendered prompt,
\* outbound call and chunks are those it has when it runs alone: they are
\* functions of its own body, of its own upstream and of the start-up
\* configuration, which no step writes.
C18_RequestsIsolated ==
    /\ [](\A r \in Requests :
            LET me == reqs[r] IN
            /\ \A q \in Requests \ {r} :
                  (me.pc # "request" /\ reqs[q].pc # "request") => me.ref # reqs[q].ref
            /\ me.pc = "ready" => heap[me.ref] = AloneVars(me.body)
            /\ (me.pc \in {"groq_await", "pulling", "streaming", "done"}
                /\ is_whisper(me.body.model_name))
                => /\ heap[me.ref] = AloneVars(me.body)
                   /\ me.initial_prompt = initial_prompt_for_groq(AloneVars(me.body))
                   /\ me.calls = AloneSent(me.body).call
            /\ (me.pc \in {"groq_await", "pulling", "streaming", "done"}
                /\ ~is_whisper(me.body.model_name))
                => /\ heap[me.ref] = AloneOpened(me.body).tv
                   /\ me.rendered_prompt = AloneOpened(me.body).prompt
                   /\ me.calls = AloneOpened(me.body).call
            /\ IsPrefix(me.out, AloneChunks(me))
            /\ (me.pc = "done" /\ ~me.disconnected) => me.out = AloneChunks(me))
    /\ [][groq_api_key' = groq_api_key]_vars

\* C18 witness: two requests that gave no mapping are in flight together: the
\* first has relayed a fragment of its stream and the second, sent after the
\* first began, awaits the answer of its call.
C18_Witness ==
    /\ reqs # <<>>
    /\ reqs[1].body.template_vars = NoneVars
    /\ reqs[2].body.template_vars = NoneVars
    /\ reqs[1].pc = "streaming"
    /\ reqs[1].out = <<FragmentText(1)>>
    /\ reqs[1].rendered_prompt # None
    /\ reqs[2].pc = "groq_await"
    /\ Len(reqs[2].calls) = 1

\* request r waits for the network: in the outbound call of the single-shot
\* provider, or in a read of the multimodal upstream
Waiting(r) == reqs[r].pc \in {"groq_await", "pulling"}

\* request q has a step to take
Pending(q) == reqs[q].pc \in {"request", "ready", "groq_await", "streaming"}

\* C19 as stated: while a request waits in the outbound call of a provider or in
\* a pull of the next fragment of the multimodal upstream, another request that
\* has a step to take is able to take it.
C19_WaitingDoesNotBlock ==
    \A r \in DOMAIN reqs : \A q \in DOMAIN reqs \ {r} :
        (Waiting(r) /\ Pending(q)) => loop = 0

\* C21: on the single-shot path of the controller, a request that gives no
\* context key sends a prompt built from the default context, followed by its
\* previous context when that is not empty; the prompt field is absent exactly
\* when the request gives an empty context and no non-empty previous context;
\* a context or previous context given by the request is never replaced by a
\* default.
C21_DefaultContextInPrompt ==
    (Gateway /\ provider = "groq" /\ Len(calls) = 1) =>
        LET context == Get(body.template_vars, "context")
            previous == Get(body.template_vars, "previous_context")
            data == calls[1].data
        IN  /\ context = None =>
                /\ "prompt" \in DOMAIN data
                /\ data["prompt"] = IF Truthy(previous)
                                    THEN default_context \o " " \o previous
                                    ELSE default_context
            /\ "prompt" \notin DOMAIN data <=> (context = "" /\ ~Truthy(previous))
            /\ context # None => Get(template_vars, "context") = context
            /\ Get(template_vars, "previous_context") = previous

\* C21 witness: a Whisper request that gave a previous context and no context
\* has sent the prompt "General Cardiology".
C21_Witness ==
    /\ Gateway
    /\ provider = "groq"
    /\ Len(calls) = 1
    /\ "context" \notin DOMAIN body.template_vars
    /\ Get(body.template_vars, "previous_context") = "Cardiology"
    /\ calls[1].data["prompt"] = "General Cardiology"

====
